---- MODULE Spec2Model ----
(***************************************************************************)
(* A model of the video-combiner batch runner (src/src/main.py), its job   *)
(* queue store (src/src/google_sheets.py), its per-job pipeline and clip   *)
(* assembler (src/src/video_processor.py) and the policy caps              *)
(* (src/src/config.py).                                                    *)
(*                                                                         *)
(* The runner is single threaded.  Each action is one step of main()       *)
(* between two collaborator calls; the outcome of a collaborator call      *)
(* (sheet API, Drive API, moviepy, the wall clock) is chosen by \E.        *)
(***************************************************************************)
EXTENDS Integers, Sequences, FiniteSets, TLC

(***************************************************************************)
(* Bounds of the model.                                                    *)
(***************************************************************************)
\* number of rows of the JobQueue worksheet (Spec)
MaxRows == 2
\* number of video files a source folder can hold when a whole queue is run (Spec)
MaxSource == 1
\* number of video files the source folder can hold when one job is run (SpecJob)
JobSource == 3
\* number of rows create_job appends (SpecCreate)
MaxCreated == 2
\* number of seconds that pass on the wall clock (SpecCreate)
MaxTicks == 1

(***************************************************************************)
(* Program constants.                                                      *)
(***************************************************************************)
\* config.py: "if max_videos > 5"
MAX_VIDEOS_CAP == 5
\* config.py: "if max_duration > 600"
MAX_DURATION_CAP == 600
\* config.py: GitHubActionsConfig.MAX_RUN_TIME
MAX_RUN_TIME == 840
\* video_processor.py: 100 * 1024 * 1024
SIZE_LIMIT == 104857600

(***************************************************************************)
(* Values the environment can supply.                                      *)
(***************************************************************************)
\* create_job names a job after the second it was created in; the row at
\* position i of the queue holds the job created in second i
JobIdOfRow(i) == "job_" \o ToString(i)

\* A worksheet cell as get_all_records() returns it: a number, or text
\* (the empty string for a blank cell).
IntCell(n) == [t |-> "int", v |-> n]
BlankCell == [t |-> "text", v |-> 0]

\* (MaxVideos, MaxDuration) cells of the rows of a queue
QueueConfigs ==
    { <<IntCell(2), IntCell(3)>>, <<IntCell(6), IntCell(3)>>,
      <<IntCell(2), IntCell(601)>>, <<IntCell(6), IntCell(601)>>,
      <<IntCell(-1), IntCell(3)>>, <<BlankCell, IntCell(3)>> }

\* (MaxVideos, MaxDuration) cells of a job run on its own
JobConfigs ==
    { <<IntCell(1), IntCell(3)>>, <<IntCell(2), IntCell(3)>>,
      <<IntCell(3), IntCell(3)>>, <<IntCell(3), IntCell(5)>>,
      <<IntCell(0), IntCell(3)>>, <<IntCell(-1), IntCell(3)>>,
      <<IntCell(6), IntCell(601)>> }

\* Status cells of the rows of a queue: waiting, or completed by an earlier run
QueueStatuses == {"pending", "completed"}

\* Status cells of a job run on its own: waiting, or entered by hand as "New"
JobStatuses == {"pending", "New"}

\* The rows position i of a queue can hold.  (The Message cell is written
\* by the program and never read; the model keeps the text in the record
\* of the call, not in the sheet.)
QueueRows(i, statuses, configs) ==
    { [JobID |-> JobIdOfRow(i), Status |-> st,
       OutputURL |-> IF st = "completed" THEN "https://drive/earlier" ELSE "",
       MaxVideos |-> cfg[1], MaxDuration |-> cfg[2]]
      : <<st, cfg>> \in
          { x \in statuses \X configs :
              x[1] = "pending" \/ x[2] = <<IntCell(2), IntCell(3)>> } }

\* Clip durations (seconds) moviepy can report.
Durations == {1, 2, 4}

\* what the scan notes for a file no duration could be read of
NoDuration == 0 - 1

\* time.time() - start_time is read only to be compared with MAX_RUN_TIME.
\* The model keeps two readings: the ceiling itself, which stands for every
\* reading up to it, and the next second, which stands for every later one.
ClockReadings == {MAX_RUN_TIME, MAX_RUN_TIME + 1}

(***************************************************************************)
(* Strings.                                                                *)
(***************************************************************************)
\* str.lower() on the status texts of the model
Lower(s) ==
    CASE s = "Pending" -> "pending"
      [] s = "PENDING" -> "pending"
      [] s = "New"     -> "new"
      [] s = "NEW"     -> "new"
      [] OTHER         -> s

\* "; ".join(errors)
RECURSIVE Join(_)
Join(errs) ==
    IF errs = <<>> THEN ""
    ELSE IF Len(errs) = 1 THEN errs[1]
    ELSE errs[1] \o "; " \o Join(Tail(errs))

\* name of a Drive video; download_video stores it as temp_dir/<name>
NameOf(v) == "v" \o ToString(v) \o ".mp4"

\* process_job: output_filename = f"combined_{job_id}.mp4"
OutputName(job_id) == "combined_" \o job_id \o ".mp4"

\* the webViewLink Drive returns for an uploaded file
LinkOf(name) == "https://drive/" \o name

(***************************************************************************)
(* config.py                                                               *)
(***************************************************************************)
ErrMaxVideos == "Max videos cannot exceed 5"
ErrMaxDuration == "Max duration cannot exceed 10 minutes"

\* a validation that checks the first cap only
validate_job_config_FirstCapOnly(job) ==
    IF job.max_videos > MAX_VIDEOS_CAP THEN <<ErrMaxVideos>> ELSE <<>>

validate_job_config(job) ==
    (IF job.max_videos > MAX_VIDEOS_CAP THEN <<ErrMaxVideos>> ELSE <<>>)
    \o (IF job.max_duration > MAX_DURATION_CAP THEN <<ErrMaxDuration>> ELSE <<>>)

(***************************************************************************)
(* google_sheets.py                                                        *)
(***************************************************************************)
\* int(cell): a ValueError for text
IntOk(cell) == cell.t = "int"

\* a filter that takes every row not marked failed
IsPendingRecord_NotFailed(record) == Lower(record.Status) # "failed"

IsPendingRecord(record) == Lower(record.Status) \in {"pending", "new"}

\* records.index(record): the first record equal to this one (0 based)
RecordsIndex(records, record) ==
    CHOOSE i \in 1 .. Len(records) :
        /\ records[i] = record
        /\ \A j \in 1 .. (i - 1) : records[j] # record

JobOfRecord(records, i) ==
    [ job_id       |-> records[i].JobID,
      max_videos   |-> records[i].MaxVideos.v,
      max_duration |-> records[i].MaxDuration.v,
      row_index    |-> (RecordsIndex(records, records[i]) - 1) + 2 ]

RECURSIVE PendingFrom(_, _)
PendingFrom(records, i) ==
    IF i > Len(records) THEN <<>>
    ELSE (IF IsPendingRecord(records[i]) THEN <<JobOfRecord(records, i)>> ELSE <<>>)
         \o PendingFrom(records, i + 1)

\* get_pending_jobs: any exception (the store, or int() of a cell of a
\* pending record) is caught and [] returned
get_pending_jobs(records, storeOk) ==
    IF ~storeOk THEN <<>>
    ELSE IF \E i \in 1 .. Len(records) :
              /\ IsPendingRecord(records[i])
              /\ ~(IntOk(records[i].MaxVideos) /\ IntOk(records[i].MaxDuration))
         THEN <<>>
    ELSE PendingFrom(records, 1)

\* the rows of the worksheet the pending list was read from (not held by the code)
RECURSIVE PendingRowsFrom(_, _)
PendingRowsFrom(records, i) ==
    IF i > Len(records) THEN <<>>
    ELSE (IF IsPendingRecord(records[i]) THEN <<i>> ELSE <<>>)
         \o PendingRowsFrom(records, i + 1)

\* the row the job was created in, whatever the sheet holds now
FindRow_CachedRow(records, job_id) ==
    IF \E i \in 1 .. Len(records) : JobIdOfRow(i) = job_id
    THEN CHOOSE i \in 1 .. Len(records) : JobIdOfRow(i) = job_id
    ELSE 0

\* update_job_status: first row whose JobID equals job_id, 0 when none
FindRow(records, job_id) ==
    IF \E i \in 1 .. Len(records) : records[i].JobID = job_id
    THEN CHOOSE i \in 1 .. Len(records) :
            /\ records[i].JobID = job_id
            /\ \A j \in 1 .. (i - 1) : records[j].JobID # job_id
    ELSE 0

\* Points at which the sheet API can raise inside update_job_status:
\* "before" the Status cell is written, or after it ("after_status": the
\* Message cell or the OutputURL cell is not written); "none" is no error.
StoreFaults == {"none", "before", "after_status"}

\* an update that writes the OutputURL cell first and the Status cell last
update_job_status_UrlFirst(records, job_id, status, message, output_url, fault) ==
    LET r == FindRow(records, job_id) IN
    IF fault = "before" THEN [sheet |-> records, ret |-> FALSE]
    ELSE IF r = 0 THEN [sheet |-> records, ret |-> FALSE]
    ELSE IF fault = "after_status"
         THEN [sheet |-> [records EXCEPT ![r].OutputURL =
                                             IF output_url # "" THEN output_url ELSE @],
               ret |-> FALSE]
    ELSE [sheet |-> [records EXCEPT ![r].Status = status,
                                    ![r].OutputURL =
                                        IF output_url # "" THEN output_url ELSE @],
          ret |-> TRUE]

\* update_job_status(job_id, status, message, output_url): the sheet after
\* the call and the value returned
update_job_status(records, job_id, status, message, output_url, fault) ==
    LET r == FindRow(records, job_id) IN
    IF fault = "before" THEN [sheet |-> records, ret |-> FALSE]
    ELSE IF r = 0 THEN [sheet |-> records, ret |-> FALSE]
    ELSE IF fault = "after_status"
         THEN [sheet |-> [records EXCEPT ![r].Status = status], ret |-> FALSE]
    ELSE [sheet |-> [records EXCEPT ![r].Status = status,
                                    ![r].OutputURL =
                                        IF output_url # "" THEN output_url ELSE @],
          ret |-> TRUE]

(***************************************************************************)
(* video_processor.py: helpers                                             *)
(***************************************************************************)
\* the ascending sequence of a set of video ids (Drive's listing order)
RECURSIVE SeqOfSet(_)
SeqOfSet(S) ==
    IF S = {} THEN <<>>
    ELSE LET m == CHOOSE x \in S : \A y \in S : x <= y
         IN <<m>> \o SeqOfSet(S \ {m})

\* the files a listing call can return: any part of the videos there are,
\* each file below the size ceiling or exactly at it
Listings(videos) ==
    { [i \in 1 .. Cardinality(p[1]) |->
          [id |-> SeqOfSet(p[1])[i],
           size |-> IF SeqOfSet(p[1])[i] \in p[2] THEN SIZE_LIMIT ELSE SIZE_LIMIT - 1]]
      : p \in { q \in (SUBSET videos) \X (SUBSET videos) : q[2] \subseteq q[1] } }

\* get_videos_from_folder: the size filter
KeepVideo(video) == video.size < SIZE_LIMIT

FilterVideos(videos) == SelectSeq(videos, KeepVideo)

\* get_videos_from_folder(folder): the filtered listing, [] on any error
get_videos_from_folder(listing, listOk) ==
    IF listOk THEN FilterVideos(listing) ELSE <<>>

Min(a, b) == IF a < b THEN a ELSE b

\* process_job: min(max_videos, len(source_videos))
SampleSize(max_videos, source_videos) == Min(max_videos, Len(source_videos))

\* random.choices: k draws with replacement
RandomSamples_WithReplacement(population, k) ==
    { [i \in 1 .. k |-> population[f[i]]] : f \in [1 .. k -> 1 .. Len(population)] }

\* random.sample(population, k) for 0 <= k <= len(population): every
\* sequence of k entries at pairwise distinct positions
RandomSamples(population, k) ==
    { [i \in 1 .. k |-> population[f[i]]] :
        f \in { g \in [1 .. k -> 1 .. Len(population)] :
                   \A i, j \in 1 .. k : i # j => g[i] # g[j] } }

\* random.sample raises ValueError for a negative k
SampleError == "Sample larger than population or is negative"

SeqToSet(s) == { s[i] : i \in 1 .. Len(s) }

\* a skip test that leaves the clip's own duration out
ExceedsBudget_TotalOnly(total, duration, max_duration) == total > max_duration

\* a skip test that also passes over the clip that fills the budget exactly
ExceedsBudget_AtBudget(total, duration, max_duration) == total + duration >= max_duration

\* combine_videos: "if total_duration + clip.duration > max_duration" (skip)
ExceedsBudget(total, duration, max_duration) == total + duration > max_duration

\* combine_videos: "if total_duration >= max_duration" (break)
BudgetReached(total, max_duration) == total >= max_duration

\* a time check against the 15 minutes of the runner instead of the 14
PastCeiling_RunnerLimit(elapsed_time) == elapsed_time > MAX_RUN_TIME + 60

\* main: "if elapsed_time > GitHubActionsConfig.MAX_RUN_TIME"
PastCeiling(elapsed_time) == elapsed_time > MAX_RUN_TIME

\* the dictionaries process_job returns
Failure(message, n) ==
    [success |-> FALSE, error_message |-> message, videos_processed |-> n,
     output_url |-> ""]

Success(n, url) ==
    [success |-> TRUE, error_message |-> "", videos_processed |-> n,
     output_url |-> url]

NoResult == Failure("", 0)

\* main: the message written with 'completed' (the elapsed seconds, a
\* float, are not part of the model)
CompletedMessage(n) == "Successfully processed " \o ToString(n) \o " videos"

(***************************************************************************)
(* State.                                                                  *)
(***************************************************************************)
VARIABLES
    folder,            \* the videos there are in Drive
    sheet,             \* the JobQueue worksheet: a sequence of records
    sheet0,            \* the worksheet as it was when this run started
    pc,                \* where main() stands
    pending,           \* main: pending_jobs
    pendingRows,       \* the worksheet row each pending job was read from
    idx,               \* main: position of the for loop in pending_jobs
    clock,             \* time.time() - start_time
    elapsed,           \* main: elapsed_time, the reading of the latest time check
    source_videos,     \* process_job: source_videos
    selected_videos,   \* process_job: selected_videos
    attempts,          \* ids download_video was called with, in call order
    local_video_paths, \* process_job: local_video_paths
    scanned,           \* combine_videos: paths of video_paths already visited
    clips,             \* combine_videos: clips (path and duration), in order
    total_duration,    \* combine_videos: total_duration
    open_clips,        \* paths whose VideoFileClip is open
    result,            \* what process_job returned
    scratch,           \* the files in temp_dir written for the job in hand
    writes,            \* per pending job: the statuses of its update_job_status calls
    last_update,       \* the arguments of the latest update_job_status call
    startup,           \* main: how the steps before the loop went in this run
    durations_read,    \* combine_videos: what the scan read of each path visited
    calls,             \* the storage and combine calls made for the job in hand
    touched,           \* per pending job: a storage or combine call was made for it
    metrics,           \* config.Metrics
    now                \* datetime.datetime.now(): seconds since midnight

vars ==
    << folder, sheet, sheet0, pc, pending, pendingRows, idx, clock, elapsed,
       source_videos, selected_videos, attempts, local_video_paths, scanned, clips,
       total_duration, open_clips, result, scratch, writes, last_update, startup, durations_read, calls, touched, metrics, now >>

jobVars ==
    << source_videos, selected_videos, attempts, local_video_paths, scanned,
       clips, total_duration, open_clips, result, scratch, calls, durations_read >>

Queues ==
    UNION { { q \in [1 .. n -> UNION { QueueRows(i, QueueStatuses, QueueConfigs) : i \in 1 .. n }] :
                \A i \in 1 .. n : q[i] \in QueueRows(i, QueueStatuses, QueueConfigs) }
            : n \in 0 .. MaxRows }

NoUpdate == [k |-> 0, status |-> "", message |-> "", output_url |-> ""]

NoMetrics == [jobs_processed |-> 0, videos_combined |-> 0, errors_encountered |-> 0]

ResetJob ==
    /\ source_videos' = <<>>
    /\ selected_videos' = <<>>
    /\ attempts' = <<>>
    /\ local_video_paths' = <<>>
    /\ scanned' = 0
    /\ clips' = <<>>
    /\ total_duration' = 0
    /\ open_clips' = {}
    /\ result' = NoResult
    /\ scratch' = {}
    /\ calls' = {}
    /\ durations_read' = <<>>

InitRun ==
    /\ sheet0 = sheet
    /\ pc = "start"
    /\ pending = <<>>
    /\ pendingRows = <<>>
    /\ idx = 1
    /\ now = 0
    /\ clock = MAX_RUN_TIME
    /\ elapsed = 0
    /\ source_videos = <<>>
    /\ selected_videos = <<>>
    /\ attempts = <<>>
    /\ local_video_paths = <<>>
    /\ scanned = 0
    /\ clips = <<>>
    /\ total_duration = 0
    /\ open_clips = {}
    /\ result = NoResult
    /\ scratch = {}
    /\ writes = <<>>
    /\ last_update = NoUpdate
    /\ startup = "not_run"
    /\ durations_read = <<>>
    /\ calls = {}
    /\ touched = <<>>
    /\ metrics = NoMetrics

\* a queue of up to MaxRows rows is run
Init ==
    /\ folder = 1 .. MaxSource
    /\ sheet \in Queues
    /\ InitRun

\* (MaxVideos, MaxDuration) cells of the rows, all of them pending, of a
\* queue edited while it is run
StoreConfigs == { <<IntCell(2), IntCell(3)>>, <<IntCell(6), IntCell(3)>> }

StoreQueues ==
    UNION { { q \in [1 .. n -> UNION { QueueRows(i, {"pending"}, StoreConfigs) : i \in 1 .. n }] :
                \A i \in 1 .. n : q[i] \in QueueRows(i, {"pending"}, StoreConfigs) }
            : n \in 0 .. MaxRows }

\* a queue of up to MaxRows rows is run while its worksheet is edited; the
\* source folder holds one video
InitStore ==
    /\ folder = {1}
    /\ sheet \in StoreQueues
    /\ InitRun

\* a queue holding one job is run
InitJob ==
    /\ folder = 1 .. JobSource
    /\ sheet \in { <<row>> : row \in QueueRows(1, JobStatuses, JobConfigs) }
    /\ InitRun

(***************************************************************************)
(* main(): the batch loop                                                  *)
(***************************************************************************)
Job == pending[idx]

\* one call sheets_manager.update_job_status(job_id, status, message, url)
\* made for the job at position k of pending_jobs
IssueUpdate(k, status, message, output_url, fault) ==
    /\ sheet' = update_job_status(sheet, pending[k].job_id, status, message,
                                  output_url, fault).sheet
    /\ writes' = [writes EXCEPT ![k] = Append(@, status)]
    /\ last_update' = [k |-> k, status |-> status, message |-> message,
                       output_url |-> output_url]

NoteCall(kind) ==
    /\ calls' = calls \cup {kind}
    /\ touched' = [touched EXCEPT ![idx] = TRUE]

\* main lines 50-79: resource check, configuration, get_pending_jobs
Main_Start ==
    /\ pc = "start"
    /\ \E outcome \in {"ok", "low_disk", "no_config", "store_error"} :
         LET jobs == IF outcome \in {"ok", "store_error"}
                     THEN get_pending_jobs(sheet, outcome = "ok")
                     ELSE <<>>
         IN /\ startup' = outcome
            /\ pending' = jobs
            /\ pendingRows' = IF jobs = <<>> THEN <<>> ELSE PendingRowsFrom(sheet, 1)
            /\ writes' = [k \in 1 .. Len(jobs) |-> <<>>]
            /\ touched' = [k \in 1 .. Len(jobs) |-> FALSE]
            /\ pc' = IF jobs = <<>> THEN "done" ELSE "loop"
    /\ idx' = 1
    /\ elapsed' = 0
    /\ UNCHANGED <<now, folder, sheet, sheet0, clock, jobVars, last_update,
                   metrics>>

\* main line 83: the for loop is exhausted; lines 136-139
Main_LoopEnd ==
    /\ pc = "loop"
    /\ idx > Len(pending)
    /\ pc' = "done"
    /\ UNCHANGED <<now, startup, folder, sheet, sheet0, pending, pendingRows, idx, clock,
                   elapsed, jobVars, writes, last_update, touched, metrics>>

\* main lines 85-88: the time check breaks the loop
Main_Timeout ==
    /\ pc = "loop"
    /\ idx <= Len(pending)
    /\ PastCeiling(clock)
    /\ elapsed' = clock
    /\ pc' = "done"
    /\ UNCHANGED <<now, startup, folder, sheet, sheet0, pending, pendingRows, idx, clock,
                   jobVars, writes, last_update, touched, metrics>>

\* a rejection without the "continue": the job goes on to process_job
Main_RejectJob_FallsThrough ==
    /\ pc = "loop"
    /\ idx <= Len(pending)
    /\ ~PastCeiling(clock)
    /\ elapsed' = clock
    /\ validate_job_config(Job) # <<>>
    /\ \E fault \in StoreFaults :
         IssueUpdate(idx, "failed", Join(validate_job_config(Job)), "", fault)
    /\ metrics' = [metrics EXCEPT !.errors_encountered = @ + 1]
    /\ pc' = "list"
    /\ UNCHANGED <<now, startup, folder, sheet0, pending, pendingRows, idx, clock, jobVars,
                   touched>>

\* main lines 85-97: the job fails validation
Main_RejectJob ==
    /\ pc = "loop"
    /\ idx <= Len(pending)
    /\ ~PastCeiling(clock)
    /\ elapsed' = clock
    /\ validate_job_config(Job) # <<>>
    /\ \E fault \in StoreFaults :
         IssueUpdate(idx, "failed", Join(validate_job_config(Job)), "", fault)
    /\ metrics' = [metrics EXCEPT !.errors_encountered = @ + 1]
    /\ idx' = idx + 1
    /\ UNCHANGED <<now, startup, folder, sheet0, pc, pending, pendingRows, clock, jobVars,
                   touched>>

\* main lines 85-102: the job passes validation and is marked processing
Main_StartJob ==
    /\ pc = "loop"
    /\ idx <= Len(pending)
    /\ ~PastCeiling(clock)
    /\ elapsed' = clock
    /\ validate_job_config(Job) = <<>>
    /\ \E fault \in StoreFaults :
         IssueUpdate(idx, "processing", "Downloading videos...", "", fault)
    /\ pc' = "list"
    /\ UNCHANGED <<now, startup, folder, sheet0, pending, pendingRows, idx, clock, jobVars,
                   touched, metrics>>

\* an end of job that writes nothing for a failed result
Main_Finish_SilentFailure ==
    /\ pc = "finish"
    /\ \E fault \in StoreFaults :
         IF result.success
         THEN /\ IssueUpdate(idx, "completed",
                             CompletedMessage(result.videos_processed),
                             result.output_url, fault)
              /\ metrics' = [metrics EXCEPT
                               !.jobs_processed = @ + 1,
                               !.videos_combined = @ + result.videos_processed]
         ELSE /\ UNCHANGED <<sheet, writes, last_update>>
              /\ metrics' = [metrics EXCEPT !.errors_encountered = @ + 1]
    /\ idx' = idx + 1
    /\ pc' = "loop"
    /\ ResetJob
    /\ UNCHANGED <<now, startup, folder, sheet0, pending, pendingRows, clock, elapsed,
                   touched>>

\* an end of job that leaves the loop after a failed result
Main_Finish_StopsOnFailure ==
    /\ pc = "finish"
    /\ \E fault \in StoreFaults :
         IF result.success
         THEN /\ IssueUpdate(idx, "completed",
                             CompletedMessage(result.videos_processed),
                             result.output_url, fault)
              /\ metrics' = [metrics EXCEPT
                               !.jobs_processed = @ + 1,
                               !.videos_combined = @ + result.videos_processed]
         ELSE /\ IssueUpdate(idx, "failed", result.error_message, "", fault)
              /\ metrics' = [metrics EXCEPT !.errors_encountered = @ + 1]
    /\ idx' = idx + 1
    /\ pc' = IF result.success THEN "loop" ELSE "done"
    /\ ResetJob
    /\ UNCHANGED <<now, startup, folder, sheet0, pending, pendingRows, clock, elapsed,
                   touched>>

\* main lines 107-129: the result of process_job is written to the queue
Main_Finish ==
    /\ pc = "finish"
    /\ \E fault \in StoreFaults :
         IF result.success
         THEN /\ IssueUpdate(idx, "completed",
                             CompletedMessage(result.videos_processed),
                             result.output_url, fault)
              /\ metrics' = [metrics EXCEPT
                               !.jobs_processed = @ + 1,
                               !.videos_combined = @ + result.videos_processed]
         ELSE /\ IssueUpdate(idx, "failed", result.error_message, "", fault)
              /\ metrics' = [metrics EXCEPT !.errors_encountered = @ + 1]
    /\ idx' = idx + 1
    /\ pc' = "loop"
    /\ ResetJob
    /\ UNCHANGED <<now, startup, folder, sheet0, pending, pendingRows, clock, elapsed,
                   touched>>

\* the next scheduled run: a new process, a new temp_dir, Metrics at zero
Main_Restart ==
    /\ pc = "done"
    /\ pc' = "start"
    /\ sheet0' = sheet
    /\ pending' = <<>>
    /\ pendingRows' = <<>>
    /\ idx' = 1
    /\ clock' = MAX_RUN_TIME
    /\ elapsed' = 0
    /\ ResetJob
    /\ writes' = <<>>
    /\ last_update' = NoUpdate
    /\ startup' = "not_run"
    /\ touched' = <<>>
    /\ metrics' = NoMetrics
    /\ UNCHANGED <<now, folder, sheet>>

(***************************************************************************)
(* VideoProcessor.process_job and combine_videos                           *)
(***************************************************************************)
MsgNoVideos == "No videos found in source folder"
MsgNoDownload == "Failed to download any videos"
MsgNoCombine == "Failed to combine videos"
MsgNoUpload == "Failed to upload result"

\* a job that goes on to combine_videos whatever was downloaded
AfterDownloads_NoCheck(paths) ==
    /\ result' = result
    /\ pc' = "scan"

\* a job that gives up when any of its downloads failed
AfterDownloads_AllRequired(paths) ==
    IF paths = <<>> \/ Len(paths) < Len(selected_videos)
    THEN /\ result' = Failure(MsgNoDownload, 0)
         /\ pc' = "finish"
    ELSE /\ result' = result
         /\ pc' = "scan"

\* process_job lines 194-199, after the download loop
AfterDownloads(paths) ==
    IF paths = <<>>
    THEN /\ result' = Failure(MsgNoDownload, 0)
         /\ pc' = "finish"
    ELSE /\ result' = result
         /\ pc' = "scan"

\* a test "is None", which an empty list does not pass
NoVideosFound_IsNone(videos) == FALSE

\* process_job: "if not source_videos"
NoVideosFound(videos) == videos = <<>>

\* process_job lines 170-185: list the folder, draw the sample
PJ_List ==
    /\ pc = "list"
    /\ NoteCall("list")
    /\ \E listing \in Listings(folder), listOk \in BOOLEAN :
         LET found == get_videos_from_folder(listing, listOk) IN
         /\ source_videos' = found
         /\ IF NoVideosFound(found)
            THEN /\ result' = Failure(MsgNoVideos, 0)
                 /\ pc' = "finish"
                 /\ selected_videos' = <<>>
            ELSE IF SampleSize(Job.max_videos, found) < 0
            THEN \* ValueError, caught at line 242
                 /\ result' = Failure(SampleError, 0)
                 /\ pc' = "finish"
                 /\ selected_videos' = <<>>
            ELSE \E sample \in RandomSamples(found, SampleSize(Job.max_videos, found)) :
                    /\ selected_videos' = sample
                    /\ IF sample = <<>>
                       THEN AfterDownloads(<<>>)
                       ELSE /\ result' = result
                            /\ pc' = "download"
    /\ UNCHANGED <<now, startup, folder, sheet, sheet0, pending, pendingRows, idx, clock,
                   elapsed, attempts, local_video_paths, scanned, clips, total_duration,
                   open_clips, scratch, writes, last_update, metrics,
                   durations_read>>

\* download_video can fail before the local file is opened for writing
\* (no file) or after it (the file stays, None is returned)
DownloadOutcomes == {"ok", "error_before_open", "error_after_open"}

\* process_job lines 189-199: one turn of the download loop
PJ_Download ==
    /\ pc = "download"
    /\ Len(attempts) < Len(selected_videos)
    /\ NoteCall("download")
    /\ LET video == selected_videos[Len(attempts) + 1]
           path == NameOf(video.id)
       IN /\ attempts' = Append(attempts, video.id)
          /\ \E outcome \in DownloadOutcomes :
               /\ scratch' = IF outcome = "error_before_open" THEN scratch
                             ELSE scratch \cup {path}
               /\ local_video_paths' = IF outcome = "ok"
                                       THEN Append(local_video_paths, path)
                                       ELSE local_video_paths
          /\ IF Len(attempts) + 1 = Len(selected_videos)
             THEN AfterDownloads(local_video_paths')
             ELSE /\ result' = result
                  /\ pc' = "download"
    /\ UNCHANGED <<now, startup, folder, sheet, sheet0, pending, pendingRows, idx, clock,
                   elapsed, source_videos, selected_videos, scanned, clips,
                   total_duration, open_clips, writes, last_update, metrics,
                   durations_read>>

\* an error of one clip that ends the scan
AfterClipError_Break(visited, paths) == "write"

\* combine_videos lines 124-126: "continue" with the next path, if any
AfterClipError(visited, paths) == IF visited = Len(paths) THEN "write" ELSE "scan"

\* combine_videos lines 106-126: one turn of the scan over video_paths.
\* VideoFileClip(path) raises ("open_error"), or the clip opens and the
\* comparison of its duration raises ("duration_error"), or it has a duration.
CV_Scan ==
    /\ pc = "scan"
    /\ scanned < Len(local_video_paths)
    /\ NoteCall("combine")
    /\ scanned' = scanned + 1
    /\ LET path == local_video_paths[scanned + 1] IN
       \/ \* line 108 raises; line 124
          /\ UNCHANGED <<clips, total_duration, open_clips>>
          /\ durations_read' = Append(durations_read, NoDuration)
          /\ pc' = AfterClipError(scanned + 1, local_video_paths)
       \/ \* line 111 raises; line 124: the clip is not closed
          /\ open_clips' = open_clips \cup {path}
          /\ UNCHANGED <<clips, total_duration>>
          /\ durations_read' = Append(durations_read, NoDuration)
          /\ pc' = AfterClipError(scanned + 1, local_video_paths)
       \/ \E duration \in Durations :
            /\ durations_read' = Append(durations_read, duration)
            /\ IF ExceedsBudget(total_duration, duration, Job.max_duration)
               THEN \* lines 112-114: closed and skipped
                    /\ UNCHANGED <<clips, total_duration, open_clips>>
                    /\ pc' = IF scanned + 1 = Len(local_video_paths)
                             THEN "write" ELSE "scan"
               ELSE \* lines 116-122
                    /\ clips' = Append(clips, [path |-> path, duration |-> duration])
                    /\ total_duration' = total_duration + duration
                    /\ open_clips' = open_clips \cup {path}
                    /\ pc' = IF \/ BudgetReached(total_duration + duration,
                                                  Job.max_duration)
                                \/ scanned + 1 = Len(local_video_paths)
                             THEN "write" ELSE "scan"
    /\ UNCHANGED <<now, startup, folder, sheet, sheet0, pending, pendingRows, idx, clock,
                   elapsed, source_videos, selected_videos, attempts, local_video_paths,
                   result, scratch, writes, last_update, metrics>>

\* combine_videos lines 128-157 and process_job lines 212-217
CV_Write ==
    /\ pc = "write"
    /\ LET out == OutputName(Job.job_id) IN
       IF clips = <<>>
       THEN \* line 130
            /\ result' = Failure(MsgNoCombine, 0)
            /\ pc' = "finish"
            /\ UNCHANGED <<open_clips, scratch>>
       ELSE \/ \* concatenate_videoclips raises; line 155
               /\ result' = Failure(MsgNoCombine, 0)
               /\ pc' = "finish"
               /\ UNCHANGED <<open_clips, scratch>>
            \/ \* write_videofile raises, with or without a partial file
               /\ result' = Failure(MsgNoCombine, 0)
               /\ pc' = "finish"
               /\ \E partial \in BOOLEAN :
                    scratch' = IF partial THEN scratch \cup {out} ELSE scratch
               /\ UNCHANGED open_clips
            \/ \* lines 148-153
               /\ scratch' = scratch \cup {out}
               /\ open_clips' = open_clips \ { clips[i].path : i \in 1 .. Len(clips) }
               /\ result' = result
               /\ pc' = "upload"
    /\ durations_read' = <<>>
    /\ UNCHANGED <<now, startup, folder, sheet, sheet0, pending, pendingRows, idx, clock,
                   elapsed, source_videos, selected_videos, attempts, local_video_paths,
                   scanned, clips, total_duration, writes, last_update, calls,
                   touched, metrics>>

\* cleanup_temp_files(file_paths): os.remove of each existing file (the
\* removal of a file this process wrote to its own temp_dir succeeds)
cleanup_temp_files(files, paths) == files \ paths

\* an upload failure reported with no video processed
UploadFailure_ZeroCount(paths) == Failure(MsgNoUpload, 0)

\* process_job lines 226-231: the failure returned when upload_video gave None
UploadFailure(paths) == Failure(MsgNoUpload, Len(paths))

\* process_job lines 219-240: upload, then clean up and report success
PJ_Upload ==
    /\ pc = "upload"
    /\ NoteCall("upload")
    /\ LET out == OutputName(Job.job_id)
           doomed == SeqToSet(local_video_paths) \cup {out}
       IN \/ \* upload_video returns None
             /\ result' = UploadFailure(local_video_paths)
             /\ UNCHANGED scratch
          \/ \* upload_video returns the link
             /\ scratch' = cleanup_temp_files(scratch, doomed)
             /\ result' = Success(Len(local_video_paths), LinkOf(out))
    /\ pc' = "finish"
    /\ UNCHANGED <<now, startup, folder, sheet, sheet0, pending, pendingRows, idx, clock,
                   elapsed, source_videos, selected_videos, attempts, local_video_paths,
                   scanned, clips, total_duration, open_clips, writes, last_update, metrics, durations_read>>

\* the wall clock passes the ceiling, at any moment of a run
Env_TimePasses ==
    /\ pc # "done"
    /\ clock < MAX_RUN_TIME + 1
    /\ clock' = MAX_RUN_TIME + 1
    /\ UNCHANGED <<now, startup, folder, sheet, sheet0, pc, pending, pendingRows, idx,
                   elapsed, jobVars, writes, last_update, touched, metrics>>

Next ==
    \/ Env_TimePasses
    \/ Main_Start
    \/ Main_LoopEnd
    \/ Main_Timeout
    \/ Main_RejectJob
    \/ Main_StartJob
    \/ PJ_List
    \/ PJ_Download
    \/ CV_Scan
    \/ CV_Write
    \/ PJ_Upload
    \/ Main_Finish
    \/ Main_Restart

\* somebody deletes a row of the worksheet while process_job runs (one row
\* per run).  process_job does not read the worksheet, so the moment of the
\* deletion within it makes no difference; the model puts it at the return.
Env_DeleteRow ==
    /\ pc = "finish"
    /\ Len(sheet) = Len(sheet0)
    /\ \E i \in 1 .. Len(sheet) :
         sheet' = [j \in 1 .. Len(sheet) - 1 |-> IF j < i THEN sheet[j] ELSE sheet[j + 1]]
    /\ UNCHANGED <<now, startup, folder, sheet0, pc, pending, pendingRows, idx, clock,
                   elapsed, jobVars, writes, last_update, touched, metrics>>

NextStore ==
    \/ Next
    \/ Env_DeleteRow

\* two decimal digits, as %H, %M and %S print them
TwoDigits(n) == IF n < 10 THEN "0" \o ToString(n) ELSE ToString(n)

\* datetime.strftime('%Y%m%d_%H%M%S') of second t of a day (the date is that
\* of the day the model runs in)
strftime(t) ==
    "20240101_" \o TwoDigits(t \div 3600) \o TwoDigits((t \div 60) % 60)
                \o TwoDigits(t % 60)

\* (max_videos, max_duration) arguments of create_job
CreateConfigs == { <<2, 3>>, <<6, 3>> }

\* create_job lines 85-99: the row appended for a job created in second t
NewRow(t, max_videos, max_duration) ==
    [JobID |-> "job_" \o strftime(t), Status |-> "pending", OutputURL |-> "",
     MaxVideos |-> IntCell(max_videos), MaxDuration |-> IntCell(max_duration)]

\* google_sheets.py create_job: called by whoever fills the queue, at any
\* moment; append_row either appends the row or raises (None is returned)
create_job ==
    /\ Len(sheet) < MaxCreated
    /\ \E cfg \in CreateConfigs, appended \in BOOLEAN :
         sheet' = IF appended
                  THEN Append(sheet, NewRow(now, cfg[1], cfg[2]))
                  ELSE sheet
    /\ UNCHANGED <<now, startup, folder, sheet0, pc, pending, pendingRows, idx, clock,
                   elapsed, jobVars, writes, last_update, touched, metrics>>

\* a second passes on the wall clock
Env_Tick ==
    /\ now < MaxTicks
    /\ now' = now + 1
    /\ UNCHANGED <<startup, folder, sheet, sheet0, pc, pending, pendingRows, idx,
                   clock, elapsed, jobVars, writes, last_update, touched, metrics>>

\* an empty queue is filled by create_job while it is run
InitCreate ==
    /\ folder = {1}
    /\ sheet = <<>>
    /\ InitRun

NextCreate ==
    \/ Next
    \/ create_job
    \/ Env_Tick

Spec == Init /\ [][Next]_vars

SpecStore == InitStore /\ [][NextStore]_vars

SpecCreate == InitCreate /\ [][NextCreate]_vars

SpecJob == InitJob /\ [][Next]_vars


(***************************************************************************)
(* Properties of the batch loop and of process_job.                        *)
(***************************************************************************)

\* the positions of process_job, from its first call to its return
InJob == pc \in {"list", "download", "scan", "write", "upload", "finish"}

Handled(k) == k < idx

TerminalStatuses == {"completed", "failed"}

\* the text validation is expected to report for a job over a cap
CapMessage(job) ==
    IF job.max_videos > 5 /\ job.max_duration > 600
    THEN "Max videos cannot exceed 5; Max duration cannot exceed 10 minutes"
    ELSE IF job.max_videos > 5
         THEN "Max videos cannot exceed 5"
         ELSE "Max duration cannot exceed 10 minutes"

\* C1: a pending job whose max_videos is above 5 or whose max_duration is
\* above 600 gets exactly one write, 'failed', whose message lists every cap
\* it violates; 'processing' is never written for it and neither the listing,
\* a download, the combine step nor the upload is called for it.
C1_InvalidJobIsRejected ==
    \A k \in 1 .. Len(pending) :
        (pending[k].max_videos > 5 \/ pending[k].max_duration > 600) =>
            /\ writes[k] \in {<<>>, <<"failed">>}
            /\ ~touched[k]
            /\ Handled(k) => writes[k] = <<"failed">>
            /\ last_update.k = k =>
                   /\ last_update.status = "failed"
                   /\ last_update.message = CapMessage(pending[k])
                   /\ last_update.output_url = ""

\* a job over both caps has been rejected with the two texts joined
C1_Witness ==
    \E k \in 1 .. Len(pending) :
        /\ pending[k].max_videos > 5
        /\ pending[k].max_duration > 600
        /\ Handled(k)
        /\ writes[k] = <<"failed">>
        /\ last_update.k = k
        /\ last_update.message =
               "Max videos cannot exceed 5; Max duration cannot exceed 10 minutes"

\* C2: the statuses written for one job are 'failed' alone, or 'processing'
\* then 'completed', or 'processing' then 'failed'; a job the loop has left
\* has one of these three sequences in full, the job in hand has
\* 'processing' alone, and a job not yet reached has no write.
C2_WritesFollowLifecycle ==
    \A k \in 1 .. Len(pending) :
        /\ Handled(k) =>
               writes[k] \in { <<"failed">>, <<"processing", "completed">>,
                               <<"processing", "failed">> }
        /\ (k = idx /\ InJob) => writes[k] = <<"processing">>
        /\ (k = idx /\ ~InJob) => writes[k] = <<>>
        /\ k > idx => writes[k] = <<>>

\* one run in which all three sequences were written is not possible with
\* two rows; two of them, one per job, are
C2_Witness ==
    /\ Len(pending) = 2
    /\ idx = 3
    /\ writes[1] = <<"processing", "failed">>
    /\ writes[2] = <<"processing", "completed">>

\* C3: when process_job has returned, no file it created in temp_dir is left.
C3_ScratchRemovedOnReturn == pc = "finish" => scratch = {}

RECURSIVE SumDurations(_)
SumDurations(cs) ==
    IF cs = <<>> THEN 0 ELSE cs[1].duration + SumDurations(Tail(cs))

\* C4: throughout the scan of combine_videos, and after it, the running
\* total is the sum of the durations of the clips taken and is at most the
\* job's max_duration.
C4_TotalWithinBudget ==
    InJob =>
        /\ total_duration = SumDurations(clips)
        /\ total_duration <= Job.max_duration

\* the scan took a clip, skipped one that did not fit, and took a later one
C4_Witness ==
    /\ pc = "write"
    /\ Len(clips) = 2
    /\ scanned = 3
    /\ total_duration = Job.max_duration

\* C5: when the reading of the time check at a job is above 840, the loop
\* ends: that job and every later one get no write and no call and their
\* rows stay as they were; a run never ends with a job left at 'processing',
\* whatever the clock did while the job was in hand.
C5_CeilingStopsBeforeJob ==
    /\ elapsed > 840 =>
           /\ pc = "done"
           /\ \A k \in idx .. Len(pending) :
                  /\ writes[k] = <<>>
                  /\ ~touched[k]
                  /\ sheet[pendingRows[k]] = sheet0[pendingRows[k]]
    /\ pc = "done" => \A k \in 1 .. Len(pending) : writes[k] # <<"processing">>
    /\ InJob => elapsed <= 840

\* the first job ran to its end, the time check at the second one stopped
\* the loop
C5_Witness ==
    /\ pc = "done"
    /\ elapsed = 841
    /\ Len(pending) = 2
    /\ idx = 2
    /\ writes = << <<"processing", "completed">>, <<>> >>

\* C7: jobs are taken in the order of pending_jobs, one at a time: a job
\* after the loop position has no write and no call, every job before it has
\* ended with a terminal status, and so nothing happens for job k+1 before
\* the terminal write of job k.
C7_OneJobAtATime ==
    /\ \A k \in 1 .. Len(pending) :
           /\ k > idx => (writes[k] = <<>> /\ ~touched[k])
           /\ Handled(k) =>
                  (writes[k] # <<>> /\ writes[k][Len(writes[k])] \in TerminalStatuses)
    /\ \A k \in 1 .. Len(pending) - 1 :
           (writes[k + 1] # <<>> \/ touched[k + 1]) =>
               (writes[k] # <<>> /\ writes[k][Len(writes[k])] \in TerminalStatuses)
    /\ Cardinality({ k \in 1 .. Len(pending) : writes[k] = <<"processing">> }) <= 1

\* the second job is in hand after the first one ended
C7_Witness ==
    /\ Len(pending) = 2
    /\ idx = 2
    /\ pc = "scan"
    /\ touched[2]
    /\ writes[1] = <<"processing", "failed">>
    /\ writes[2] = <<"processing">>

\* statuses get_pending_jobs is expected to take for a job to run
PendingWords == {"pending", "Pending", "PENDING", "new", "New", "NEW"}

\* C8: a run that finds no pending job changes nothing in the worksheet,
\* issues no status update and calls nothing of the storage or the combine
\* step, in the first run and in every run after it.
C8_EmptyQueueRunIsIdle ==
    LET empty == \/ pc = "done" /\ pending = <<>>
                 \/ pc # "start" /\ \A i \in 1 .. Len(sheet0) :
                                        sheet0[i].Status \notin PendingWords
    IN empty =>
           /\ sheet = sheet0
           /\ last_update = NoUpdate
           /\ calls = {}
           /\ scratch = {}
           /\ \A k \in 1 .. Len(touched) : ~touched[k]
           /\ metrics = NoMetrics

\* a worksheet with rows, none of them pending, after a run
C8_Witness ==
    /\ pc = "done"
    /\ pending = <<>>
    /\ Len(sheet) = 2
    /\ \A i \in 1 .. Len(sheet) : sheet[i].Status = "completed"


\* what process_job returns for the ValueError of random.sample
C6_State ==
    /\ (pc = "finish" /\ Job.max_videos < 0 /\ source_videos # <<>>) =>
           result = [success |-> FALSE,
                     error_message |-> "Sample larger than population or is negative",
                     videos_processed |-> 0, output_url |-> ""]
    /\ pc = "done" => (idx > Len(pending) \/ elapsed > 840)

\* what main does with a failed result
C6_Step ==
    (pc = "finish" /\ ~result.success /\ pc' # pc) =>
        /\ last_update' = [k |-> idx, status |-> "failed",
                           message |-> result.error_message, output_url |-> ""]
        /\ writes'[idx] = <<"processing", "failed">>
        /\ idx' = idx + 1
        /\ pc' = "loop"

\* C6: an error raised while a job is processed (here the ValueError of
\* random.sample for a negative MaxVideos) comes back as a failed result
\* carrying the error text; main writes 'failed' with that text and goes on
\* to the next job; the loop ends only after the last job or at the ceiling.
C6_ErrorFailsJobAndLoopGoesOn == []C6_State /\ [][C6_Step]_vars

\* the first job failed with the text of the exception and the loop stands
\* at the second one
C6_Witness ==
    /\ Len(pending) = 2
    /\ idx = 2
    /\ pc = "loop"
    /\ last_update = [k |-> 1, status |-> "failed",
                      message |-> "Sample larger than population or is negative",
                      output_url |-> ""]

\* C9: the sample has min(max_videos, n) entries, all from the listing and
\* with pairwise distinct ids; downloads are attempted for these entries in
\* the order drawn, and for all of them once the download loop is over.
C9_SampleIsDistinctSubset ==
    (InJob /\ pc # "list" /\ Job.max_videos >= 0 /\ source_videos # <<>>) =>
        /\ Len(selected_videos) =
               (IF Job.max_videos < Len(source_videos)
                THEN Job.max_videos ELSE Len(source_videos))
        /\ \A i, j \in 1 .. Len(selected_videos) :
               i # j => selected_videos[i].id # selected_videos[j].id
        /\ \A i \in 1 .. Len(selected_videos) :
               \E j \in 1 .. Len(source_videos) : selected_videos[i] = source_videos[j]
        /\ Len(attempts) <= Len(selected_videos)
        /\ \A i \in 1 .. Len(attempts) : attempts[i] = selected_videos[i].id
        /\ pc # "download" => Len(attempts) = Len(selected_videos)

\* two of three files drawn, out of the order of the listing, both attempted
C9_Witness ==
    /\ pc = "scan"
    /\ Len(source_videos) = 3
    /\ Job.max_videos = 2
    /\ attempts = <<3, 1>>

\* what process_job returns for an empty listing
C10_State ==
    (pc = "finish" /\ source_videos = <<>>) =>
        /\ result = [success |-> FALSE,
                     error_message |-> "No videos found in source folder",
                     videos_processed |-> 0, output_url |-> ""]
        /\ calls = {"list"}
        /\ attempts = <<>>
        /\ selected_videos = <<>>
        /\ scratch = {}

\* what main writes for it
C10_Step ==
    (pc = "finish" /\ source_videos = <<>> /\ pc' # pc) =>
        last_update' = [k |-> idx, status |-> "failed",
                        message |-> "No videos found in source folder",
                        output_url |-> ""]

\* C10: when the listing of the source folder comes back empty (no file,
\* every file at or over the size limit, or an error of the listing),
\* process_job returns the failure 'No videos found in source folder' with
\* videos_processed 0 and has called neither a download, the combine step
\* nor the upload; the job is then written 'failed' with that message.
C10_EmptyListingFailsJob == []C10_State /\ [][C10_Step]_vars

\* the job of an empty folder has been written 'failed'
C10_Witness ==
    /\ pc = "loop"
    /\ idx = 2
    /\ writes[1] = <<"processing", "failed">>
    /\ last_update.message = "No videos found in source folder"


\* a is b with some entries left out
RECURSIVE IsSubsequence(_, _)
IsSubsequence(a, b) ==
    IF a = <<>> THEN TRUE
    ELSE IF b = <<>> THEN FALSE
    ELSE IF a[1] = b[1] THEN IsSubsequence(Tail(a), Tail(b))
    ELSE IsSubsequence(a, Tail(b))

\* the files of the videos downloads were attempted for, in call order
AttemptedPaths == [i \in 1 .. Len(attempts) |-> "v" \o ToString(attempts[i]) \o ".mp4"]

\* the working set during and after the download loop
C11_State ==
    /\ (InJob /\ pc # "list") => IsSubsequence(local_video_paths, AttemptedPaths)
    /\ pc \in {"scan", "write", "upload"} => local_video_paths # <<>>
    /\ (pc = "finish" /\ source_videos # <<>> /\ Job.max_videos >= 0) =>
           /\ result.error_message = "Failed to download any videos"
                  <=> local_video_paths = <<>>
           /\ local_video_paths = <<>> =>
                  /\ ~result.success
                  /\ result.videos_processed = 0
                  /\ calls \subseteq {"list", "download"}

\* one turn of the download loop
C11_Step ==
    (pc = "download" /\ attempts' # attempts) =>
        /\ \/ local_video_paths' = local_video_paths
           \/ local_video_paths' =
                  Append(local_video_paths, AttemptedPaths'[Len(attempts')])
        /\ pc' = "download" <=> Len(attempts') < Len(selected_videos)
        /\ pc' = "scan" <=>
               (Len(attempts') = Len(selected_videos) /\ local_video_paths' # <<>>)
        /\ pc' \in {"download", "scan", "finish"}

\* C11: a failed download leaves the files downloaded before it in place and
\* the loop goes on with the next selected video, so the working set is the
\* successful downloads in the order drawn; the job fails with 'Failed to
\* download any videos' and videos_processed 0 exactly when no download of
\* the sample succeeded, and then neither combine nor upload was called.
C11_FailedDownloadOnlyDropsItsVideo == []C11_State /\ [][C11_Step]_vars

\* three videos drawn, the second download failed, the scan is about to
\* start on the first and the third
C11_Witness ==
    /\ pc = "scan"
    /\ attempts = <<3, 1, 2>>
    /\ local_video_paths = <<"v3.mp4", "v2.mp4">>


\* what process_job returns when the upload gave no link
C12_State ==
    (pc = "finish" /\ "upload" \in calls /\ ~result.success) =>
        /\ result = [success |-> FALSE, error_message |-> "Failed to upload result",
                     videos_processed |-> Len(local_video_paths), output_url |-> ""]
        /\ result.videos_processed >= 1
        /\ clips # <<>>
        /\ ("combined_" \o Job.job_id \o ".mp4") \in scratch

\* what main writes for it
C12_Step ==
    (pc = "finish" /\ "upload" \in calls /\ ~result.success /\ pc' # pc) =>
        /\ last_update' = [k |-> idx, status |-> "failed",
                           message |-> "Failed to upload result", output_url |-> ""]
        /\ Len(sheet') = Len(sheet)
        /\ \A i \in 1 .. Len(sheet) : sheet'[i].OutputURL = sheet[i].OutputURL

\* C12: when the upload fails after a combine that succeeded, process_job
\* returns the failure 'Failed to upload result' with videos_processed equal
\* to the number of files downloaded, which is at least one; main writes
\* 'failed' with that message and no OutputURL cell changes.
C12_UploadFailureKeepsCount == []C12_State /\ [][C12_Step]_vars

\* the job was written 'failed' for the upload and its row has no link
C12_Witness ==
    /\ pc = "loop"
    /\ idx = 2
    /\ last_update = [k |-> 1, status |-> "failed",
                      message |-> "Failed to upload result", output_url |-> ""]
    /\ sheet[1].Status = "failed"
    /\ sheet[1].OutputURL = ""


\* the job ids of the records waiting to be run, in the order of the store
RECURSIVE WaitingIds(_)
WaitingIds(records) ==
    IF records = <<>> THEN <<>>
    ELSE (IF records[1].Status \in PendingWords THEN <<records[1].JobID>> ELSE <<>>)
         \o WaitingIds(Tail(records))

\* C13: when the store could be read, get_pending_jobs returns one job for
\* every record whose Status is 'pending' or 'new' in any case, for no other
\* record, in the order of the store, whatever the other cells hold.
C13_PendingListMatchesStore ==
    (pc # "start" /\ startup = "ok") =>
        [k \in 1 .. Len(pending) |-> pending[k].job_id] = WaitingIds(sheet0)


\* the rows of the worksheet that carry the id of the job in hand
RowsOfJob == { i \in 1 .. Len(sheet) : sheet[i].JobID = pending[idx].job_id }

\* one call of update_job_status made by the loop
C14_Step ==
    (pc \notin {"start", "done"} /\ writes' # writes) =>
        /\ RowsOfJob = {} =>
               /\ sheet' = sheet
               /\ \A fault \in StoreFaults :
                      update_job_status(sheet, pending[idx].job_id, last_update'.status,
                                        last_update'.message, last_update'.output_url,
                                        fault) = [sheet |-> sheet, ret |-> FALSE]
        /\ RowsOfJob # {} =>
               /\ Len(sheet') = Len(sheet)
               /\ \A i \in 1 .. Len(sheet) : i \notin RowsOfJob => sheet'[i] = sheet[i]
               /\ sheet' # sheet =>
                      \A i \in RowsOfJob : sheet'[i].Status = last_update'.status
        /\ pc' \in {"loop", "list"}
        /\ idx' \in {idx, idx + 1}

\* C14: every call of update_job_status looks the job id up in the sheet as
\* it is at that moment: when no row carries the id the call returns False
\* and no cell changes, otherwise only the row carrying the id changes; in
\* both cases the loop goes on, and it ends only after the last job or at
\* the ceiling.
C14_MissingRowIsNotFatal ==
    /\ [][C14_Step]_vars
    /\ [](pc = "done" => (idx > Len(pending) \/ elapsed > 840))

\* the row of the first job was deleted while the job was processed; its
\* terminal update found no row and the loop stands at the second job
C14_Witness ==
    /\ Len(pending) = 2
    /\ idx = 2
    /\ pc = "loop"
    /\ last_update.k = 1
    /\ \A i \in 1 .. Len(sheet) : sheet[i].JobID # "job_1"
    /\ Len(sheet) = 1
    /\ sheet[1].JobID = "job_2"
    /\ sheet[1].Status = "pending"


\* C15: once combine_videos has returned, with True or with False, no clip
\* it opened is still open.
C15_NoClipLeftOpen == pc \in {"upload", "finish"} => open_clips = {}


\* combine_videos between its calls and at its return
C16_State ==
    /\ pc = "write" =>
           /\ Len(durations_read) = scanned
           /\ scanned = Len(local_video_paths) \/ total_duration >= Job.max_duration
    /\ pc = "upload" =>
           /\ clips # <<>>
           /\ ("combined_" \o Job.job_id \o ".mp4") \in scratch
    /\ (pc = "finish" /\ "combine" \in calls /\ "upload" \notin calls) =>
           result = [success |-> FALSE, error_message |-> "Failed to combine videos",
                     videos_processed |-> 0, output_url |-> ""]

\* one turn of the scan, and the end of combine_videos
C16_Step ==
    /\ (pc = "scan" /\ scanned' # scanned) =>
           /\ scanned' = scanned + 1
           /\ pc' \in {"scan", "write"}
           /\ result' = result
    /\ (pc = "write" /\ pc' # pc) =>
           /\ pc' \in {"upload", "finish"}
           /\ clips = <<>> => pc' = "finish"
           /\ pc' = "upload" => result' = result

\* C16: no error of combine_videos reaches process_job: a clip that cannot
\* be opened or read is passed over and the scan goes on with the next path;
\* combine_videos returns False when no clip was taken or when the
\* concatenation or the final write failed, and True only with at least one
\* clip taken and the output file written.
C16_CombineNeverRaises == []C16_State /\ [][C16_Step]_vars

\* the first of two files could not be read, the second was taken and the
\* output was written (every duration fits a budget of 5, so the first file
\* was not passed over for its length)
C16_Witness ==
    /\ pc = "upload"
    /\ Job.max_duration = 5
    /\ Len(local_video_paths) = 2
    /\ Len(clips) = 1
    /\ clips[1].path = local_video_paths[2]


\* the OutputURL cells of the worksheet and the links the loop passes on
C17_State ==
    /\ \A i \in 1 .. Len(sheet) :
           sheet[i].OutputURL # "" => sheet[i].Status = "completed"
    /\ last_update.output_url # "" => last_update.status = "completed"

\* a call that carries a link, and a step that changes an OutputURL cell
C17_Step ==
    /\ (pc \notin {"start", "done"} /\ writes' # writes
          /\ last_update'.output_url # "") =>
           /\ pc = "finish"
           /\ result.success
           /\ "upload" \in calls
           /\ last_update'.status = "completed"
           /\ last_update'.output_url = result.output_url
           /\ result.output_url = "https://drive/combined_" \o Job.job_id \o ".mp4"
    /\ \A i \in 1 .. Len(sheet) :
           (Len(sheet') = Len(sheet) /\ sheet'[i].OutputURL # sheet[i].OutputURL) =>
               /\ sheet'[i].Status = "completed"
               /\ sheet[i].JobID = Job.job_id
               /\ sheet'[i].OutputURL = "https://drive/combined_" \o Job.job_id \o ".mp4"

RECURSIVE GreedyFrom(_, _, _, _)
GreedyFrom(ds, i, t, max) ==
    IF i > Len(ds) THEN <<>>
    ELSE IF ds[i] < 0 THEN GreedyFrom(ds, i + 1, t, max)
    ELSE IF t + ds[i] <= max
         THEN <<i>> \o (IF t + ds[i] >= max THEN <<>>
                        ELSE GreedyFrom(ds, i + 1, t + ds[i], max))
    ELSE GreedyFrom(ds, i + 1, t, max)

\* C18: at every point of the scan and when the clips go to concatenation,
\* the clips taken are those the reference greedy scan takes from the paths
\* visited, in input order; the scan leaves paths unvisited only when the
\* total has reached max_duration, where the reference scan stops too.
C18_ScanIsGreedy ==
    pc \in {"scan", "write"} =>
        LET ref == GreedyFrom(durations_read, 1, 0, Job.max_duration) IN
        /\ Len(durations_read) = scanned
        /\ Len(clips) = Len(ref)
        /\ \A i \in 1 .. Len(clips) :
               /\ clips[i].path = local_video_paths[ref[i]]
               /\ clips[i].duration = durations_read[ref[i]]
        /\ (pc = "write" /\ scanned < Len(local_video_paths)) =>
               SumDurations(clips) >= Job.max_duration

\* durations 2, 4, 1 with a budget of 3: the first and the third are taken
C18_Witness ==
    /\ pc = "write"
    /\ Job.max_duration = 3
    /\ durations_read = <<2, 4, 1>>
    /\ Len(clips) = 2
    /\ clips[1].duration = 2
    /\ clips[2].duration = 1
    /\ clips[2].path = local_video_paths[3]


\* what has to have happened before each stage of the job in hand
C19_State ==
    /\ InJob => writes[idx] = <<"processing">>
    /\ ~InJob => calls = {}
    /\ ("download" \in calls \/ pc = "download") =>
           ("list" \in calls /\ source_videos # <<>>)
    /\ ("combine" \in calls \/ pc \in {"scan", "write"}) =>
           ("download" \in calls /\ local_video_paths # <<>>)
    /\ pc = "upload" => ("combined_" \o Job.job_id \o ".mp4") \in scratch
    /\ ("upload" \in calls \/ pc = "upload") => ("combine" \in calls /\ clips # <<>>)
    /\ (pc = "finish" /\ ~result.success) =>
           /\ result.error_message \in
                  {"No videos found in source folder",
                   "Sample larger than population or is negative"} =>
                  calls = {"list"}
           /\ result.error_message = "Failed to download any videos" =>
                  calls \subseteq {"list", "download"}
           /\ result.error_message = "Failed to combine videos" =>
                  calls = {"list", "download", "combine"}

\* the write of 'completed', and the calls after process_job has returned
C19_Step ==
    /\ (pc \notin {"start", "done"} /\ writes' # writes
          /\ last_update'.status = "completed") =>
           /\ "upload" \in calls
           /\ result.success
           /\ result.output_url # ""
    /\ pc = "finish" => calls' \subseteq calls
    /\ calls' # calls =>
           \/ calls' = {}
           \/ calls' \ calls = {"list"} /\ pc = "list"
           \/ calls' \ calls = {"download"} /\ pc = "download"
           \/ calls' \ calls = {"combine"} /\ pc = "scan"
           \/ calls' \ calls = {"upload"} /\ pc = "upload"

\* C19: within a job the listing comes after the write of 'processing', a
\* download after a listing that was not empty, the combine step after a
\* download that succeeded, the upload after a combine that succeeded, and
\* 'completed' is written only after the upload returned a link; once a stage
\* has failed no later stage is called.
C19_StagesAreGated == []C19_State /\ [][C19_Step]_vars

\* every stage of a job was called and process_job reports success
C19_Witness ==
    /\ pc = "finish"
    /\ result.success
    /\ calls = {"list", "download", "combine", "upload"}
    /\ writes[idx] = <<"processing">>


\* C20: when the batch has ended no job the run recorded as 'processing' is
\* still recorded as 'processing' in the store: every one of them has had
\* 'completed' or 'failed' recorded, also when a status update failed.
C20_NoJobLeftProcessing ==
    pc = "done" =>
        \A i \in 1 .. Len(sheet) :
            (i <= Len(sheet0) /\ sheet0[i].Status # "processing") =>
                sheet[i].Status # "processing"


\* what main does with the result of a job that succeeded
C21_Step ==
    (pc = "finish" /\ result.success /\ pc' = "loop") =>
        /\ last_update'.status = "completed"
        /\ last_update'.message = CompletedMessage(Len(clips))
        /\ metrics'.videos_combined = metrics.videos_combined + Len(clips)

\* C21: the number of videos in the message of a completed job, and added
\* to videos_combined, is the number of clips that were concatenated into
\* the output, also when the combine step skipped a clip that went over the
\* duration budget or could not be opened.
C21_CountIsClipsConcatenated == [][C21_Step]_vars


\* C22: after any sequence of create_job calls no two rows of the queue have
\* the same JobID, also when two calls fall within one second of the clock
\* (so that a status update for a job id finds the row of that job, and no
\* pending row stands behind an earlier row with its id).
C22_JobIdsStayUnique ==
    \A i, j \in 1 .. Len(sheet) :
        sheet[i].JobID = sheet[j].JobID => i = j

====
